---- MODULE Spec2Model ----
(***************************************************************************)
(* A model of four pieces of frb_codegen:                                  *)
(*   - codegen/parser/hir/hierarchical/mod.rs : parse                      *)
(*   - commands/command_runner.rs : command_args, call_shell,              *)
(*     execute_command, check_exit_code                                    *)
(*   - commands/format_dart.rs, commands/format_rust.rs                    *)
(*   - build_web/mod.rs : execute_dart_command, dart_run                   *)
(* The program is a command line tool: one operation is active at a time   *)
(* (op), chosen with its inputs by a Call action from the idle state.      *)
(***************************************************************************)
EXTENDS Integers, Sequences, FiniteSets, TLC

\* ------------------------------------------------------------------ bounds
\* Number of crate names a raw pack may hold.
MaxCrates == 3
\* Number of argument items of a command_args invocation.
MaxItems == 2
\* Length of an iterable given to `*expr`, of a tuple's expr list, and of the
\* path list of format_dart / format_rust.
MaxSeq == 2
\* Length in bytes of the stderr a child process writes.
MaxStderr == 2

VARIABLES
    op,            \* the active operation, "idle" when none was called yet
    \* ---- parse (hierarchical/mod.rs)
    config,        \* config: &ParserHirInternalConfig
    hir_raw,       \* hir_raw: &HirRawPack, crate name -> syn_file
    run,           \* 1 for the first call of parse on the input, 2 for the second
    remaining,     \* crates the iterator hir_raw.crates.iter() has not yielded yet
    vec,           \* the Vec<(crate name, HirCrate)> being collected
    calls,         \* the parse_crate calls made so far in this run
    result,        \* what parse returned in this run
    first_result,  \* what parse returned in run 1
    first_calls,   \* the parse_crate calls made in run 1
    \* ---- command_args (command_runner.rs)
    items,         \* the argument items of the macro invocation
    args,          \* the Vec<PathBuf> the macro built
    \* ---- call_shell / execute_command / check_exit_code and their callers
    pc,            \* position inside the active operation
    windows,       \* cfg!(windows) of the build
    shell_mode,    \* mode: Option<ShellMode>
    pwd,           \* pwd / current_dir: Option<&Path>
    exec,          \* bin and args execute_command was called with
    spawns,        \* number of times cmd.output() started the process
    proc,          \* what cmd.output() returned
    exec_ret,      \* what execute_command (hence call_shell) returned
    ret,           \* what the active operation returned
    \* ---- dart_run (build_web/mod.rs)
    dart_coverage, \* dart_coverage: bool
    child,         \* the `dart run` child: "none", "spawned", "waited"
    dart_run_ret   \* what dart_run returned

parse_vars ==
    <<config, hir_raw, run, remaining, vec, calls, result, first_result, first_calls>>
args_vars == <<items, args>>
shell_vars == <<pc, windows, shell_mode, pwd, exec, spawns, proc, exec_ret, ret>>
dart_vars == <<dart_coverage, child, dart_run_ret>>
vars == <<op, parse_vars, args_vars, shell_vars, dart_vars>>

\* Option / Result values are records with a tag.
None == [tag |-> "None"]
Some(x) == [tag |-> "Some", v |-> x]
Ok(x) == [tag |-> "Ok", v |-> x]
Err(e) == [tag |-> "Err", e |-> e]

\* ===================================================================
\* parse: hierarchical resolution of a raw pack
\* ===================================================================
CrateNames == 1 .. MaxCrates

\* A raw syntax tree: its declarations (an abstract identity of the content) and
\* whether it holds a construct resolution rejects (unknown mirror target,
\* cyclic re-export).
SynFiles == [decls : {"d1", "d2"}, unresolved : BOOLEAN]

\* The resolver configuration: which crate is primary.
Configs == [primary : CrateNames]

\* HirRawPack.crates: a map from crate name to syntax tree.
HirRawPacks == UNION {[S -> SynFiles] : S \in SUBSET CrateNames}

\* parse_crate(config, syn_file, crate_name): the resolved crate model, or a
\* ResolutionError. It reads its three arguments and nothing else.
parse_crate(cfg, syn_file, crate_name) ==
    IF syn_file.unresolved
    THEN Err([kind |-> "ResolutionError", crate_name |-> crate_name])
    ELSE Ok([name |-> crate_name,
             primary |-> (crate_name = cfg.primary),
             root_module |-> syn_file.decls])

\* The map closure handed the whole raw pack (what a lookup table shared by all
\* crates would amount to).
ClosureArgsWholePack(raw, crate_name) == raw

\* What the iterator hir_raw.crates.iter() hands the map closure for one crate,
\* and the closure hands on to parse_crate: the pair (crate_name, syn_file), here
\* the raw pack restricted to that one crate.
ClosureArgs(raw, crate_name) == [c \in {crate_name} |-> raw[c]]

\* A map closure that leaves out a crate that does not resolve and goes on.
MapClosureSkipFailed(cfg, raw, crate_name, v) ==
    LET given == ClosureArgs(raw, crate_name)
        r == parse_crate(cfg, given[crate_name], crate_name)
    IN  [readable |-> DOMAIN given,
         vec |-> IF r.tag = "Ok" THEN Append(v, <<crate_name, r.v>>) ELSE v,
         error |-> None]

\* The map closure applied to one crate, and what collect::<Result<Vec<_>>> does
\* with its value: Ok((crate_name, parse_crate(config, syn_file, crate_name)?))
\* is pushed to the Vec; an Err ends the collection, the Vec dropped.
MapClosure(cfg, raw, crate_name, v) ==
    LET given == ClosureArgs(raw, crate_name)
        r == parse_crate(cfg, given[crate_name], crate_name)
    IN  [readable |-> DOMAIN given,
         vec |-> IF r.tag = "Ok" THEN Append(v, <<crate_name, r.v>>) ELSE <<>>,
         error |-> IF r.tag = "Ok" THEN None ELSE Some(r.e)]

\* .into_iter().collect() of the Vec of pairs into HirPack.crates, a map: a later
\* pair replaces an earlier one of the same key.
CollectMap(v) ==
    LET keys == {v[i][1] : i \in DOMAIN v}
        last(k) == CHOOSE i \in DOMAIN v :
                       /\ v[i][1] = k
                       /\ \A j \in DOMAIN v : v[j][1] = k => j <= i
    IN  [k \in keys |-> v[last(k)][2]]

HirPack(v) == [crates |-> CollectMap(v)]

ParseReset ==
    /\ config = [primary |-> 1]
    /\ hir_raw = <<>>
    /\ run = 0
    /\ remaining = {}
    /\ vec = <<>>
    /\ calls = <<>>
    /\ result = None
    /\ first_result = None
    /\ first_calls = <<>>

\* A caller invokes parse(config, hir_raw).
CallParse ==
    /\ op = "idle"
    /\ \E cfg \in Configs, raw \in HirRawPacks :
        /\ config' = cfg
        /\ hir_raw' = raw
        /\ remaining' = DOMAIN raw
    /\ op' = "parse"
    /\ run' = 1
    /\ vec' = <<>>
    /\ calls' = <<>>
    /\ result' = None
    /\ first_result' = None
    /\ first_calls' = <<>>
    /\ UNCHANGED <<args_vars, shell_vars, dart_vars>>

\* One iteration of the collection that takes the crate out of the raw pack.
ParseCrateStepDraining ==
    /\ op = "parse"
    /\ result = None
    /\ remaining # {}
    /\ \E crate_name \in remaining :
        LET m == MapClosure(config, hir_raw, crate_name, vec) IN
        /\ calls' = Append(calls, [crate_name |-> crate_name,
                                   readable |-> m.readable])
        /\ vec' = m.vec
        /\ hir_raw' = [c \in DOMAIN hir_raw \ {crate_name} |-> hir_raw[c]]
        /\ IF m.error = None
           THEN /\ remaining' = remaining \ {crate_name}
                /\ result' = result
           ELSE /\ remaining' = remaining
                /\ result' = Err(m.error.v)
    /\ UNCHANGED <<op, config, run, first_result, first_calls,
                   args_vars, shell_vars, dart_vars>>

\* One iteration of collect::<Result<Vec<_>>> over the mapped iterator: the
\* iterator yields the next crate (a map iterates in an arbitrary order), the
\* closure resolves it, and either the pair is pushed or the first error ends
\* the collection and `?` returns it from parse.
ParseCrateStep ==
    /\ op = "parse"
    /\ result = None
    /\ remaining # {}
    /\ \E crate_name \in remaining :
        LET m == MapClosure(config, hir_raw, crate_name, vec) IN
        /\ calls' = Append(calls, [crate_name |-> crate_name,
                                   readable |-> m.readable])
        /\ vec' = m.vec
        /\ IF m.error = None
           THEN /\ remaining' = remaining \ {crate_name}
                /\ result' = result
           ELSE /\ remaining' = remaining
                /\ result' = Err(m.error.v)
    /\ UNCHANGED <<op, config, hir_raw, run, first_result, first_calls,
                   args_vars, shell_vars, dart_vars>>

\* parse returning a pack of the first resolved crate alone.
ParseReturnValueFirstOnly(v) == Ok(HirPack(IF v = <<>> THEN v ELSE <<v[1]>>))

\* parse returning the pairs in the order they were resolved, not a map.
ParseReturnValueAsVec(v) == Ok([crates |-> v])

\* What parse returns once the iterator is exhausted: Ok(HirPack { crates }).
ParseReturnValue(v) == Ok(HirPack(v))

\* The iterator is exhausted without an error: the Vec is collected into the
\* map and parse returns Ok(HirPack { crates }).
ParseCollect ==
    /\ op = "parse"
    /\ result = None
    /\ remaining = {}
    /\ result' = ParseReturnValue(vec)
    /\ UNCHANGED <<op, config, hir_raw, run, remaining, vec, calls, first_result,
                   first_calls,
                   args_vars, shell_vars, dart_vars>>

\* The caller invokes parse a second time on the same configuration and raw
\* pack.
ParseAgain ==
    /\ op = "parse"
    /\ run = 1
    /\ result # None
    /\ first_result' = result
    /\ first_calls' = calls
    /\ run' = 2
    /\ remaining' = DOMAIN hir_raw
    /\ vec' = <<>>
    /\ calls' = <<>>
    /\ result' = None
    /\ UNCHANGED <<op, config, hir_raw, args_vars, shell_vars, dart_vars>>

\* ===================================================================
\* Properties of parse
\* ===================================================================
Resolves(c) == parse_crate(config, hir_raw[c], c).tag = "Ok"
ParseReturned == op = "parse" /\ result # None

\* C1: if resolution of at least one crate of the raw pack fails, parse returns
\* an error and no HirPack, not even one of the crates that did resolve.
C1_FailsWhole ==
    (ParseReturned /\ \E c \in DOMAIN hir_raw : ~Resolves(c))
        => result.tag = "Err"

\* C1 witness: parse returned an error after one crate had already resolved,
\* with another crate that would resolve not visited at all.
C1_Witness ==
    /\ ParseReturned
    /\ result.tag = "Err"
    /\ Len(calls) = 2
    /\ \E c \in remaining : Resolves(c)

\* C2: when parse succeeds the HirPack has exactly the crate names of the raw
\* pack, and the model under each name is the result of resolving that crate's
\* own syntax tree.
C2_ExactCrates ==
    (ParseReturned /\ result.tag = "Ok")
        => /\ DOMAIN result.v.crates = DOMAIN hir_raw
           /\ \A c \in DOMAIN hir_raw :
                  result.v.crates[c] = parse_crate(config, hir_raw[c], c).v

\* C2 witness: parse succeeded on a pack of three crates whose trees differ.
C2_Witness ==
    /\ ParseReturned
    /\ result.tag = "Ok"
    /\ Cardinality(DOMAIN hir_raw) >= 3
    /\ \E c, d \in DOMAIN hir_raw : hir_raw[c].decls # hir_raw[d].decls

C4_Deterministic ==
    (ParseReturned /\ run = 2)
        => /\ result.tag = first_result.tag
           /\ result.tag = "Ok" => result = first_result

\* C4 witness: both runs succeeded on a pack of three crates, the second having
\* visited the crates in another order than the first.
C4_Witness ==
    /\ ParseReturned
    /\ run = 2
    /\ result.tag = "Ok"
    /\ Len(calls) >= 3
    /\ calls # first_calls

\* C5: resolving a crate changes neither the configuration nor the raw pack nor
\* the resolved model of any crate resolved before it; from the call of parse to
\* its return and through the next call the inputs keep their values.
C5_NoCrossCrateMutation ==
    [][op = "parse" =>
        /\ config' = config
        /\ hir_raw' = hir_raw
        /\ (run' = run /\ result' = None) =>
               /\ Len(vec') >= Len(vec)
               /\ SubSeq(vec', 1, Len(vec)) = vec]_vars

\* C5 witness: parse returned after resolving two crates, one of them before
\* the other.
C5_Witness ==
    /\ ParseReturned
    /\ Len(vec) >= 2
    /\ run = 2

\* ===================================================================
\* command_args: the argument list of a command
\* ===================================================================
SeqsUpTo(S, n) == UNION {[1 .. k -> S] : k \in 0 .. n}

\* PathBuf::from(x): the value wrapped as a path, its content kept.
PathBufFrom(x) == [path |-> x]

ArgValues == {"x", "y"}

\* The four shapes of an argument item.
ExprItem(e) == [kind |-> "expr", expr |-> e]
OptItem(src) == [kind |-> "opt", src |-> src]
StarItem(src) == [kind |-> "star", src |-> src]
CondItem(cond, exprs) == [kind |-> "cond", cond |-> cond, exprs |-> exprs]

Items ==
    {ExprItem(e) : e \in ArgValues}
    \cup {OptItem(s) : s \in {None} \cup {Some(e) : e \in ArgValues}}
    \cup {StarItem(s) : s \in SeqsUpTo(ArgValues, MaxSeq)}
    \cup {CondItem(c, es) : c \in BOOLEAN, es \in SeqsUpTo(ArgValues, MaxSeq) \ {<<>>}}

\* A tuple arm that pushes the first expr alone.
ArmCondFirstOnly(a, it) ==
    IF it.cond THEN Append(a, PathBufFrom(it.exprs[1])) ELSE a

\* (@args $args ($cond, $($expr),+), ...): if $cond, push every expr in order.
ArmCond(a, it) ==
    IF it.cond
    THEN a \o [i \in DOMAIN it.exprs |-> PathBufFrom(it.exprs[i])]
    ELSE a

\* (@args $args ?$src, ...): push the content if $src is Some.
ArmOpt(a, it) ==
    IF it.src.tag = "Some" THEN Append(a, PathBufFrom(it.src.v)) ELSE a

\* (@args $args *$src, ...): extend by the elements of $src, in order.
ArmStar(a, it) == a \o [i \in DOMAIN it.src |-> PathBufFrom(it.src[i])]

\* (@args $args $expr, ...): push the expr.
ArmExpr(a, it) == Append(a, PathBufFrom(it.expr))

\* command_args!(@args args rest): the arm matching the first item of rest
\* acts on args, then the macro recurses on the items after it; the arm for no
\* item left ends the recursion.
RECURSIVE command_args_at(_, _)
command_args_at(a, rest) ==
    IF rest = <<>>
    THEN a
    ELSE LET it == Head(rest) IN
         command_args_at(
             CASE it.kind = "cond" -> ArmCond(a, it)
               [] it.kind = "opt" -> ArmOpt(a, it)
               [] it.kind = "star" -> ArmStar(a, it)
               [] it.kind = "expr" -> ArmExpr(a, it),
             Tail(rest))

\* command_args!(rest): let mut args = Vec::new(); the @args recursion; args.
command_args(its) == command_args_at(<<>>, its)

\* A caller builds an argument list from argument items.
CallCommandArgs ==
    /\ op = "idle"
    /\ \E its \in SeqsUpTo(Items, MaxItems) :
        /\ items' = its
        /\ args' = command_args(its)
    /\ op' = "command_args"
    /\ UNCHANGED <<parse_vars, shell_vars, dart_vars>>

\* ===================================================================
\* Properties of command_args
\* ===================================================================
\* What an argument item contributes, as the macro's documentation states it.
C8_Contribution(it) ==
    CASE it.kind = "expr" -> <<PathBufFrom(it.expr)>>
      [] it.kind = "opt" ->
            IF it.src = None THEN <<>> ELSE <<PathBufFrom(it.src.v)>>
      [] it.kind = "star" -> [i \in DOMAIN it.src |-> PathBufFrom(it.src[i])]
      [] it.kind = "cond" ->
            IF it.cond
            THEN [i \in DOMAIN it.exprs |-> PathBufFrom(it.exprs[i])]
            ELSE <<>>

\* The number of arguments the items before the i-th contribute.
RECURSIVE C8_Offset(_, _)
C8_Offset(its, i) ==
    IF i <= 1 THEN 0
    ELSE C8_Offset(its, i - 1) + Len(C8_Contribution(its[i - 1]))

\* C8: the argument list is the in-order concatenation of the items'
\* contributions: the i-th item's contribution stands right after those of the
\* items before it, and nothing else is in the list.
C8_InOrderConcatenation ==
    /\ Len(args) = C8_Offset(items, Len(items) + 1)
    /\ \A i \in DOMAIN items :
        LET c == C8_Contribution(items[i])
            o == C8_Offset(items, i)
        IN  SubSeq(args, o + 1, o + Len(c)) = c

\* C8 witness: a list built from a `*` item of two elements followed by a tuple
\* item whose condition holds.
C8_Witness ==
    /\ op = "command_args"
    /\ Len(items) = 2
    /\ items[1].kind = "star" /\ Len(items[1].src) = 2
    /\ items[1].src[1] # items[1].src[2]
    /\ items[2].kind = "cond" /\ items[2].cond /\ Len(items[2].exprs) = 2
    /\ Len(args) = 4

\* ===================================================================
\* Running a command: call_shell, execute_command, check_exit_code
\* ===================================================================
\* A path: its text, whether it starts with the Windows UNC prefix \\?\ and
\* whether it is valid UTF-8.
Paths ==
    {[unc |-> FALSE, s |-> "lib/a.dart", utf8 |-> TRUE],
     [unc |-> TRUE, s |-> "C:/b.dart", utf8 |-> TRUE],
     [unc |-> FALSE, s |-> "raw", utf8 |-> FALSE]}

\* path_to_string(path): the path as a String, an error for a path that is not
\* valid UTF-8.
path_to_string(p) ==
    IF p.utf8 THEN Ok([unc |-> p.unc, s |-> p.s])
    ELSE Err([kind |-> "PathNotUtf8", path |-> p.s])

\* normalize_windows_unc_path(str): the string without the \\?\ prefix.
normalize_windows_unc_path(str) == [unc |-> FALSE, s |-> str.s]

\* PathBuf from a String (.to_owned().into()).
StringIntoPathBuf(str) == [unc |-> str.unc, s |-> str.s, utf8 |-> TRUE]

\* normalize_windows_unc_paths(paths): every path converted to a string and
\* normalized, or the error of the first path that does not convert.
normalize_windows_unc_paths(paths) ==
    IF \E i \in DOMAIN paths : path_to_string(paths[i]).tag = "Err"
    THEN LET i == CHOOSE i \in DOMAIN paths :
                      /\ path_to_string(paths[i]).tag = "Err"
                      /\ \A j \in 1 .. i - 1 : path_to_string(paths[j]).tag = "Ok"
         IN  path_to_string(paths[i])
    ELSE Ok([i \in DOMAIN paths |->
                StringIntoPathBuf(normalize_windows_unc_path(path_to_string(paths[i]).v))])

ShellModes == {"Powershell", "Cmd", "Sh"}
ShellModeOpts == {None} \cup {Some(m) : m \in ShellModes}

\* mode.unwrap_or(if cfg!(windows) { Powershell } else { Sh })
EffectiveMode(mode, win) ==
    IF mode = None THEN (IF win THEN "Powershell" ELSE "Sh") ELSE mode.v

\* cmd.iter().map(|section| format!("{section:?}")).join(" "): the sections in
\* their Debug form, in order.
JoinDebug(cmd) == [joined |-> [i \in DOMAIN cmd |-> [debug |-> cmd[i].path]]]

\* The body of call_shell up to its call of execute_command: the binary and the
\* arguments of the shell that is to run the command line.
ShellInvocation(cmd, mode, win) ==
    LET line == JoinDebug(cmd)
        m == EffectiveMode(mode, win)
    IN  CASE m = "Powershell" ->
                [bin |-> "powershell",
                 args |-> command_args(<<ExprItem("-noprofile"), ExprItem("-command"),
                                         ExprItem([amp |-> line])>>)]
          [] m = "Cmd" ->
                [bin |-> "cmd", args |-> command_args(<<ExprItem("/c"), ExprItem(line)>>)]
          [] m = "Sh" ->
                [bin |-> "sh", args |-> command_args(<<ExprItem("-c"), ExprItem(line)>>)]

\* An exit status: its code, None for a process ended by a signal.
ExitStatuses == {Some(0), Some(1), None}
Success(status) == status = Some(0)

\* The bytes a process may write to stderr: "A", and the two bytes of the UTF-8
\* encoding of U+00E9, each of which alone is invalid UTF-8.
StderrBytes == {65, 195, 169}
Stderrs == SeqsUpTo(StderrBytes, MaxStderr)

\* What cmd.output() may return: an io::Error, or the Output of the process
\* (stdout is read by the log lines only and is left out).
ProcessOutcomes ==
    {Err([kind |-> "io"])}
    \cup {Ok([status |-> st, stderr |-> e]) : st \in ExitStatuses, e \in Stderrs}

\* The UTF-8 encoding of U+FFFD REPLACEMENT CHARACTER.
Replacement == <<239, 191, 189>>

\* String::from_utf8_lossy(bytes), the String as its UTF-8 bytes: an ASCII byte
\* and a well-formed two-byte sequence are kept, a byte that starts no
\* well-formed sequence becomes U+FFFD. (No byte of StderrBytes leads a three-
\* or four-byte sequence.)
RECURSIVE from_utf8_lossy(_)
from_utf8_lossy(b) ==
    IF b = <<>> THEN <<>>
    ELSE IF b[1] < 128 THEN <<b[1]>> \o from_utf8_lossy(Tail(b))
    ELSE IF b[1] \in 194 .. 223 /\ Len(b) >= 2 /\ b[2] \in 128 .. 191
         THEN <<b[1], b[2]>> \o from_utf8_lossy(Tail(Tail(b)))
    ELSE Replacement \o from_utf8_lossy(Tail(b))

\* "Command execution failed: " as bytes.
FailedPrefix ==
    <<67, 111, 109, 109, 97, 110, 100, 32, 101, 120, 101, 99, 117, 116, 105, 111,
      110, 32, 102, 97, 105, 108, 101, 100, 58, 32>>

Unit == [tag |-> "Unit"]

\* A check_exit_code whose error leaves the stderr out.
CheckExitCodeWithoutStderr(res) ==
    IF ~Success(res.status) THEN Err([msg |-> FailedPrefix]) ELSE Ok(Unit)

\* check_exit_code(res): an error carrying the lossily decoded stderr unless the
\* status is a success.
check_exit_code(res) ==
    IF ~Success(res.status)
    THEN Err([msg |-> FailedPrefix \o from_utf8_lossy(res.stderr)])
    ELSE Ok(Unit)

\* An execute_command that reports a failing exit status as an error.
ExecuteCommandReturnChecked(o) ==
    IF o.tag = "Err" THEN Err([kind |-> "failed", source |-> o.e])
    ELSE IF Success(o.v.status) THEN Ok(o.v)
    ELSE Err([kind |-> "failed", source |-> o.v.status])

\* What execute_command returns given what cmd.output() returned: the io::Error
\* with context, or Ok(result) after the log lines, whatever the status.
ExecuteCommandReturn(o) ==
    IF o.tag = "Err" THEN Err([kind |-> "failed", source |-> o.e]) ELSE Ok(o.v)

\* call_shell(cmd, mode, pwd, envs) up to its call of execute_command.
CallShell ==
    /\ pc = "call_shell"
    /\ exec' = Some(ShellInvocation(args, shell_mode, windows))
    /\ pc' = "execute_command"
    /\ UNCHANGED <<op, parse_vars, args_vars, windows, shell_mode, pwd, spawns,
                   proc, exec_ret, ret, dart_vars>>

\* execute_command up to cmd.output(): the Command is built; a current_dir that
\* does not convert to a string returns the error at once.
ExecuteCommand ==
    /\ pc = "execute_command"
    /\ IF pwd # None /\ path_to_string(pwd.v).tag = "Err"
       THEN /\ exec_ret' = path_to_string(pwd.v)
            /\ pc' = "executed"
       ELSE /\ exec_ret' = exec_ret
            /\ pc' = "output"
    /\ UNCHANGED <<op, parse_vars, args_vars, windows, shell_mode, pwd, exec,
                   spawns, proc, ret, dart_vars>>

\* A cmd.output() that is called again after a failure.
CommandOutputRetrying ==
    /\ pc = "output"
    /\ spawns' = spawns + 1
    /\ \E o \in ProcessOutcomes :
        /\ proc' = o
        /\ exec_ret' = ExecuteCommandReturn(o)
        /\ pc' = IF (o.tag = "Err" \/ ~Success(o.v.status)) /\ spawns < 1
                 THEN "output" ELSE "executed"
    /\ UNCHANGED <<op, parse_vars, args_vars, windows, shell_mode, pwd, exec,
                   ret, dart_vars>>

\* cmd.output() and the rest of execute_command: the process is started and
\* runs to its end (or cannot be run), and execute_command returns.
CommandOutput ==
    /\ pc = "output"
    /\ spawns' = spawns + 1
    /\ \E o \in ProcessOutcomes :
        /\ proc' = o
        /\ exec_ret' = ExecuteCommandReturn(o)
    /\ pc' = "executed"
    /\ UNCHANGED <<op, parse_vars, args_vars, windows, shell_mode, pwd, exec,
                   ret, dart_vars>>

\* The command lines a direct caller of call_shell runs here.
ShellCommandLines ==
    {<<ExprItem("true")>>, <<ExprItem("echo"), StarItem(<<"x", "y">>)>>}

\* A caller runs command_run!(call_shell[mode, pwd, None], ...).
CallCallShell ==
    /\ op = "idle"
    /\ \E its \in ShellCommandLines, mode \in ShellModeOpts, win \in BOOLEAN,
          dir \in {None} \cup {Some(d) : d \in Paths} :
        /\ items' = its
        /\ args' = command_args(its)
        /\ shell_mode' = mode
        /\ windows' = win
        /\ pwd' = dir
    /\ op' = "call_shell"
    /\ pc' = "call_shell"
    /\ UNCHANGED <<parse_vars, exec, spawns, proc, exec_ret, ret, dart_vars>>

\* call_shell returns what execute_command returned.
CallShellReturn ==
    /\ op = "call_shell"
    /\ pc = "executed"
    /\ ret' = exec_ret
    /\ pc' = "done"
    /\ UNCHANGED <<op, parse_vars, args_vars, windows, shell_mode, pwd, exec,
                   spawns, proc, exec_ret, dart_vars>>

\* ===================================================================
\* format_dart, format_rust
\* ===================================================================
LineLengths == {80, 120}

FormatDartItems(path, line_length) ==
    <<ExprItem("dart"), ExprItem("format"), ExprItem("--line-length"),
      ExprItem(ToString(line_length)), StarItem(path)>>

FormatRustItems(path) ==
    <<ExprItem("rustfmt"), ExprItem("--edition"), ExprItem("2018"), StarItem(path)>>

\* format_dart(path, line_length, shell_mode) up to its call of call_shell.
CallFormatDart ==
    /\ op = "idle"
    /\ \E path \in SeqsUpTo(Paths, MaxSeq), line_length \in LineLengths,
          mode \in ShellModeOpts, win \in BOOLEAN :
        LET n == normalize_windows_unc_paths(path) IN
        /\ shell_mode' = mode
        /\ windows' = win
        /\ IF n.tag = "Err"
           THEN /\ ret' = n
                /\ pc' = "done"
                /\ UNCHANGED args_vars
           ELSE /\ items' = FormatDartItems(n.v, line_length)
                /\ args' = command_args(FormatDartItems(n.v, line_length))
                /\ ret' = ret
                /\ pc' = "call_shell"
    /\ op' = "format_dart"
    /\ UNCHANGED <<parse_vars, pwd, exec, spawns, proc, exec_ret, dart_vars>>

\* format_rust(path, shell_mode) up to its call of call_shell.
CallFormatRust ==
    /\ op = "idle"
    /\ \E path \in SeqsUpTo(Paths, MaxSeq), mode \in ShellModeOpts, win \in BOOLEAN :
        LET n == normalize_windows_unc_paths(path) IN
        /\ shell_mode' = mode
        /\ windows' = win
        /\ IF n.tag = "Err"
           THEN /\ ret' = n
                /\ pc' = "done"
                /\ UNCHANGED args_vars
           ELSE /\ items' = FormatRustItems(n.v)
                /\ args' = command_args(FormatRustItems(n.v))
                /\ ret' = ret
                /\ pc' = "call_shell"
    /\ op' = "format_rust"
    /\ UNCHANGED <<parse_vars, pwd, exec, spawns, proc, exec_ret, dart_vars>>

\* let res = command_run!(...)?; check_exit_code(&res)?; Ok(())
FormatDartResult(er) ==
    IF er.tag = "Err" THEN er
    ELSE IF check_exit_code(er.v).tag = "Err" THEN check_exit_code(er.v)
    ELSE Ok(Unit)

\* check_exit_code(&command_run!(...)?)
FormatRustResult(er) ==
    IF er.tag = "Err" THEN er ELSE check_exit_code(er.v)

\* format_dart from the return of call_shell to its own return.
FormatDartReturn ==
    /\ op = "format_dart"
    /\ pc = "executed"
    /\ ret' = FormatDartResult(exec_ret)
    /\ pc' = "done"
    /\ UNCHANGED <<op, parse_vars, args_vars, windows, shell_mode, pwd, exec,
                   spawns, proc, exec_ret, dart_vars>>

\* format_rust from the return of call_shell to its own return.
FormatRustReturn ==
    /\ op = "format_rust"
    /\ pc = "executed"
    /\ ret' = FormatRustResult(exec_ret)
    /\ pc' = "done"
    /\ UNCHANGED <<op, parse_vars, args_vars, windows, shell_mode, pwd, exec,
                   spawns, proc, exec_ret, dart_vars>>

\* ===================================================================
\* build_web: execute_dart_command, dart_run
\* ===================================================================
DartCollectorItems ==
    <<ExprItem("dart"), ExprItem("pub"), ExprItem("global"), ExprItem("run"),
      ExprItem("coverage:collect_coverage"), ExprItem("--wait-paused"),
      ExprItem("--uri=http://127.0.0.1:8181/"), ExprItem("-o"),
      ExprItem("coverage/coverage.json"), ExprItem("--resume-isolates"),
      ExprItem("--scope-output=foo")>>

\* execute_dart_command(dart_root, args, dart_coverage, shell_mode) up to the
\* spawn in dart_run: the repository is read and the arguments are built from
\* path_to_string(dart_root); either can fail. (The child's own argument list is
\* read by no later step and is left out.)
CallExecuteDartCommand ==
    /\ op = "idle"
    /\ \E dart_root \in Paths, coverage \in BOOLEAN, mode \in ShellModeOpts,
          win \in BOOLEAN, repo_ok \in BOOLEAN :
        /\ pwd' = Some(dart_root)
        /\ dart_coverage' = coverage
        /\ shell_mode' = mode
        /\ windows' = win
        /\ IF path_to_string(dart_root).tag = "Err"
           THEN ret' = path_to_string(dart_root) /\ pc' = "done"
           ELSE IF ~repo_ok
           THEN ret' = Err([kind |-> "DartRepository"]) /\ pc' = "done"
           ELSE ret' = ret /\ pc' = "spawn"
    /\ op' = "execute_dart_command"
    /\ UNCHANGED <<parse_vars, args_vars, exec, spawns, proc, exec_ret, child,
                   dart_run_ret>>

\* Where dart_run goes after a successful spawn: `if dart_coverage { ... }`.
AfterSpawn(coverage) == IF coverage THEN "call_shell" ELSE "wait"

\* dart_run: Command::new("dart")...spawn()?, and with dart_coverage the
\* argument list of the collector.
DartRunSpawn ==
    /\ op = "execute_dart_command"
    /\ pc = "spawn"
    /\ \E spawned \in BOOLEAN :
        IF spawned
        THEN /\ child' = "spawned"
             /\ pc' = AfterSpawn(dart_coverage)
             /\ IF AfterSpawn(dart_coverage) = "call_shell"
                THEN /\ items' = DartCollectorItems
                     /\ args' = command_args(DartCollectorItems)
                ELSE UNCHANGED args_vars
             /\ UNCHANGED <<ret, dart_run_ret>>
        ELSE /\ dart_run_ret' = Err([kind |-> "io"])
             /\ ret' = Err([kind |-> "io"])
             /\ pc' = "done"
             /\ UNCHANGED <<child, args_vars>>
    /\ UNCHANGED <<op, parse_vars, windows, shell_mode, pwd, exec, spawns, proc,
                   exec_ret, dart_coverage>>

\* A dart_run that goes on to wait whatever the collector's exit status.
CollectorResultUnchecked(er) == IF er.tag = "Err" THEN er ELSE Ok(Unit)

\* let res = command_run!(call_shell[...], ...)?; check_exit_code(&res)?;
CollectorResult(er) == IF er.tag = "Err" THEN er ELSE check_exit_code(er.v)

\* dart_run from the return of the collector's call_shell: an error of the call
\* or of check_exit_code is returned (and execute_dart_command returns it in
\* turn); otherwise dart_run goes on to wait for the child.
DartRunCollected ==
    /\ op = "execute_dart_command"
    /\ pc = "executed"
    /\ IF CollectorResult(exec_ret).tag = "Err"
       THEN /\ dart_run_ret' = CollectorResult(exec_ret)
            /\ ret' = CollectorResult(exec_ret)
            /\ pc' = "done"
       ELSE /\ UNCHANGED <<dart_run_ret, ret>>
            /\ pc' = "wait"
    /\ UNCHANGED <<op, parse_vars, args_vars, windows, shell_mode, pwd, exec,
                   spawns, proc, exec_ret, dart_coverage, child>>

\* The statuses and the error handle.wait_with_output() may return.
WaitOutcomes == {Err([kind |-> "io"])} \cup {Ok(st) : st \in ExitStatuses}

\* execute_dart_command after dart_run(...)?: bail unless the status is a
\* success.
ExecuteDartCommandResult(r) ==
    IF r.tag = "Err" THEN r
    ELSE IF ~Success(r.v) THEN Err([kind |-> "Fail to execute command"])
    ELSE Ok(Unit)

\* Ok(handle.wait_with_output()?.status), and execute_dart_command's return.
DartRunWait ==
    /\ op = "execute_dart_command"
    /\ pc = "wait"
    /\ child' = "waited"
    /\ \E w \in WaitOutcomes :
        /\ dart_run_ret' = w
        /\ ret' = ExecuteDartCommandResult(w)
    /\ pc' = "done"
    /\ UNCHANGED <<op, parse_vars, args_vars, windows, shell_mode, pwd, exec,
                   spawns, proc, exec_ret, dart_coverage>>

\* ===================================================================
\* Properties of running a command
\* ===================================================================
FormatOp == op \in {"format_dart", "format_rust"}
ProcessFailed == proc.tag = "Ok" /\ ~Success(proc.v.status)

\* h holds n as a contiguous part.
Contains(h, n) ==
    \E i \in 0 .. Len(h) - Len(n) : SubSeq(h, i + 1, i + Len(n)) = n

\* b is well-formed UTF-8 (of one- and two-byte sequences).
RECURSIVE C6_ValidUtf8(_)
C6_ValidUtf8(b) ==
    \/ b = <<>>
    \/ b[1] < 128 /\ C6_ValidUtf8(Tail(b))
    \/ /\ Len(b) >= 2
       /\ b[1] \in 194 .. 223
       /\ b[2] \in 128 .. 191
       /\ C6_ValidUtf8(Tail(Tail(b)))

\* C6 as stated: whenever the formatter command ends with a failing exit status,
\* format_dart / format_rust return an error whose message contains the
\* command's stderr output; they return Ok only when the command succeeded.
C6_MessageContainsStderr ==
    (FormatOp /\ pc = "done") =>
        /\ ProcessFailed =>
              /\ ret.tag = "Err"
              /\ Contains(ret.e.msg, proc.v.stderr)
        /\ ret.tag = "Ok" => (proc.tag = "Ok" /\ Success(proc.v.status))

\* C6 amended: the message is "Command execution failed: " followed by the lossy
\* UTF-8 decoding of the stderr output, each byte that is not part of a
\* well-formed sequence replaced by U+FFFD; it contains the stderr output itself
\* when that is well-formed UTF-8. Ok is returned only when the command succeeded.
C6_MessageContainsLossyStderr ==
    (FormatOp /\ pc = "done") =>
        /\ ProcessFailed =>
              /\ ret.tag = "Err"
              /\ ret.e.msg = FailedPrefix \o from_utf8_lossy(proc.v.stderr)
              /\ C6_ValidUtf8(proc.v.stderr) =>
                     /\ from_utf8_lossy(proc.v.stderr) = proc.v.stderr
                     /\ Contains(ret.e.msg, proc.v.stderr)
              /\ ~C6_ValidUtf8(proc.v.stderr) => Contains(ret.e.msg, Replacement)
        /\ ret.tag = "Ok" => (proc.tag = "Ok" /\ Success(proc.v.status))

\* C6 witness: format_dart returned after the formatter exited with code 1 and
\* a stderr of a valid byte followed by an invalid one.
C6_Witness ==
    /\ op = "format_dart"
    /\ pc = "done"
    /\ proc = Ok([status |-> Some(1), stderr |-> <<65, 195>>])
    /\ ret.tag = "Err"

\* C7: a call of execute_command (and so of call_shell, format_dart,
\* format_rust) starts the process at most once; once cmd.output() has
\* returned, whatever it returned, the call is past the point of starting it.
C7_NoRetry ==
    /\ spawns <= 1
    /\ proc # None =>
           /\ spawns = 1
           /\ pc \notin {"call_shell", "execute_command", "output"}

\* C7 witness: format_rust returned after the one process it started could not
\* be run.
C7_Witness ==
    /\ op = "format_rust"
    /\ pc = "done"
    /\ proc.tag = "Err"
    /\ spawns = 1
    /\ ret.tag = "Err"

\* C10: execute_command returns Err exactly when the working directory does not
\* convert to a string or the process could not be run; otherwise it returns Ok
\* with the process output whatever the exit status, and call_shell returns the
\* same.
C10_ExitStatusIsNotAnError ==
    exec_ret # None =>
        /\ exec_ret.tag = "Err" <=> ((pwd # None /\ ~pwd.v.utf8) \/ proc.tag = "Err")
        /\ proc.tag = "Ok" => exec_ret = Ok(proc.v)
        /\ (op = "call_shell" /\ pc = "done") => ret = exec_ret

\* C10 witness: call_shell returned Ok with the output of a process that exited
\* with code 1.
C10_Witness ==
    /\ op = "call_shell"
    /\ pc = "done"
    /\ ret.tag = "Ok"
    /\ ret.v.status = Some(1)

\* ===================================================================
\* Properties of dart_run
\* ===================================================================
DartOp == op = "execute_dart_command"
CollectorActive == pc \in {"call_shell", "execute_command", "output", "executed"}
CollectorSucceeded == exec_ret.tag = "Ok" /\ Success(exec_ret.v.status)

ArgsReset == items = <<>> /\ args = <<>>
ShellReset ==
    /\ pc = "idle"
    /\ windows = FALSE
    /\ shell_mode = None
    /\ pwd = None
    /\ exec = None
    /\ spawns = 0
    /\ proc = None
    /\ exec_ret = None
    /\ ret = None
DartReset == dart_coverage = FALSE /\ child = "none" /\ dart_run_ret = None

Init ==
    /\ op = "idle"
    /\ ParseReset
    /\ ArgsReset
    /\ ShellReset
    /\ DartReset

Next ==
    \/ CallParse
    \/ ParseCrateStep
    \/ ParseCollect
    \/ ParseAgain
    \/ CallCommandArgs
    \/ CallCallShell
    \/ CallShell
    \/ ExecuteCommand
    \/ CommandOutput
    \/ CallShellReturn
    \/ CallFormatDart
    \/ CallFormatRust
    \/ FormatDartReturn
    \/ FormatRustReturn
    \/ CallExecuteDartCommand
    \/ DartRunSpawn
    \/ DartRunCollected
    \/ DartRunWait

Spec == Init /\ [][Next]_vars
====
